---- MODULE Spec2Model ----
(***************************************************************************)
(* A model of the two experiment scripts of the repository:                *)
(*   median_perf.py               sort_median / heap_median timing         *)
(*   median_estimate_accuracy.py  accuracy of a sampled median             *)
(* Python lists are sequences; a Python index i is the TLA+ index i + 1.   *)
(* Floating point data are integers counted in tenths; the raw draws of    *)
(* the binned distributions are counted in twentieths, so that the         *)
(* rounding round(val*10.0)/10.0 is a real conversion.  Scores, times and  *)
(* their means are exact fractions <<numerator, denominator>>.             *)
(***************************************************************************)
EXTENDS Integers, Sequences, FiniteSets, TLC

(* ------------------------------ bounds --------------------------------- *)
\* longest list handed to sort_median / heap_median in the median harness
MaxLen == 4
\* list elements of the median harness are drawn from 0..MaxValue
MaxValue == 2
\* len of the population experimental_data builds by default (16384 in the
\* script)
PopLen == 3
\* random.random() draws 0.0, 0.1, .. MaxUniform tenths
MaxUniform == 1
\* random.gauss() draws -MaxGauss .. MaxGauss twentieths
MaxGauss == 2
\* random.expovariate() draws 0 .. MaxExpo twentieths
MaxExpo == 2
\* trials averaged per sample size and series (20 in the script)
NumTrials == 2
\* sample_sizes = range(SampleStart, SampleStop, SampleStep)
\* (range(4, 128, 4) in the script)
SampleStart == 1
SampleStop == 3
SampleStep == 1
\* timings averaged per length and algorithm (5 in the script)
NumTimings == 2
\* lengths = range(LenStart, LenStop, LenStep)
\* (range(2**10, 2**19, 2**15) in the script)
LenStart == 1
LenStop == 4
LenStep == 2
\* time.clock() reads 0 .. MaxClock ticks
MaxClock == 1
\* longest list asked of experimental_data when it is called on its own
MaxDataLen == 3
\* most items of a dict handed to median_line_plot when it is called on its
\* own; the keys are 1 .. MaxItems
MaxItems == 2

VARIABLES
    script,      \* which script runs: "accuracy" or "perf"
    entry,       \* the function called first: "run_test" or "median_line_plot"
    pc,          \* position of the script
    loopIdx,     \* Python index into sample_sizes / lengths of the iteration
    series,      \* the statement of the loop body running: 0, 1, (2)
    trials,      \* the list the comprehension has built so far
    trialGen,    \* for each element of trials, the dataset it came from
    genCount,    \* datasets generated so far; the last one is number genCount
    data,        \* score_median / time_median: data
    actual_median,        \* score_median: actual_median
    start_time,           \* time_median: start_time
    uniform_results,      \* accuracy run_test: dict, items in insertion order
    normal_results,
    exponential_results,
    sorted_results,       \* perf run_test: dict, items in insertion order
    heap_results,
    timedRuns,   \* perf: <<algorithm, dataset>> of each timed run of the
                 \* iteration running
    scriptError, \* the exception that ended the script, if any
    plotCalls,   \* the <<x, y>> handed to each plt.plot, in call order
    dMode,       \* experimental_data called on its own: mode
    dLength,     \*   length
    dResult,     \*   how the call ended
    inputList,   \* the list both median functions are given a copy of
    sortArg,     \* the copy passed to sort_median (its parameter L)
    sortRet,     \* what sort_median returned
    pcSort,      \* position of the sort_median call
    heapArg,     \* the copy passed to heap_median (its parameter L)
    heapRet,     \* what the calls of heap_median returned, oldest first
    heapN,       \* len(L)//2 as evaluated by range() at line 44
    heapI,       \* iterations of the loop of heap_median done so far
    pcHeap       \* position of the heap_median call

medianVars == <<inputList, sortArg, sortRet, pcSort,
                heapArg, heapRet, heapN, heapI, pcHeap>>

accTables == <<uniform_results, normal_results, exponential_results>>
perfTables == <<sorted_results, heap_results>>

scriptVars == <<script, entry, pc, loopIdx, series, trials, trialGen, genCount,
                data, actual_median, start_time, accTables, perfTables,
                timedRuns, scriptError, plotCalls>>

dataVars == <<dMode, dLength, dResult>>

vars == <<medianVars, scriptVars, dataVars>>

(* ----------------------- Python built-ins used -------------------------- *)
\* how a call ends: with a value returned or with an exception raised
NoValue == <<"none">>
Return(v) == <<"return", v>>
Raise(e) == <<"raise", e>>
Returned(r) == r[1] = "return"
Raised(r) == r[1] = "raise"
IndexError == "IndexError"
ValueError == "ValueError"
ZeroDivisionError == "ZeroDivisionError"

Abs(x) == IF x < 0 THEN -x ELSE x

\* a range(start, stop, step) that takes stop too
RECURSIVE RangeInclusiveMutant(_, _, _)
RangeInclusiveMutant(start, stop, step) ==
    IF start <= stop
    THEN <<start>> \o RangeInclusiveMutant(start + step, stop, step)
    ELSE <<>>

\* range(start, stop, step) for step > 0, as a list
RECURSIVE Range(_, _, _)
Range(start, stop, step) ==
    IF start < stop THEN <<start>> \o Range(start + step, stop, step) ELSE <<>>

(* floats that are quotients: <<n, d>> with d > 0 in lowest terms *)
RECURSIVE GCD(_, _)
GCD(a, b) == IF b = 0 THEN a ELSE GCD(b, a % b)

Frac(n, d) ==
    LET g == GCD(Abs(n), Abs(d))
        sgn == IF d < 0 THEN -1 ELSE 1
    IN  <<sgn * (n \div g), sgn * (d \div g)>>

FracAdd(a, b) == Frac(a[1] * b[2] + b[1] * a[2], a[2] * b[2])
FracLess(a, b) == a[1] * b[2] < b[1] * a[2]

\* sum(L): 0 + L[0] + L[1] + ...
RECURSIVE Sum(_)
Sum(L) ==
    IF L = <<>> THEN Frac(0, 1)
    ELSE FracAdd(Sum(SubSeq(L, 1, Len(L) - 1)), L[Len(L)])

\* round(x) of Python 3 for x = r/2: halves go to the even neighbour
RoundHalf(r) ==
    LET q == r \div 2
    IN  IF r % 2 = 0 THEN q
        ELSE IF q % 2 = 0 THEN q ELSE q + 1

(* a dict: its items <<key, value>> in insertion order, keys distinct *)
DictKeys(d) == {d[i][1] : i \in DOMAIN d}
DictHas(d, k) == k \in DictKeys(d)
DictGet(d, k) == d[CHOOSE i \in DOMAIN d : d[i][1] = k][2]

\* d[k] = v: a known key keeps its place, a new one goes last
DictSet(d, k, v) ==
    IF DictHas(d, k)
    THEN [i \in DOMAIN d |-> IF d[i][1] = k THEN <<k, v>> ELSE d[i]]
    ELSE Append(d, <<k, v>>)

\* (k1, v1) < (k2, v2) as Python orders tuples
ItemLess(a, b) == a[1] < b[1] \/ (a[1] = b[1] /\ FracLess(a[2], b[2]))

RECURSIVE InsertItem(_, _)
InsertItem(x, s) ==
    IF s = <<>> THEN <<x>>
    ELSE IF ItemLess(x, Head(s)) THEN <<x>> \o s
    ELSE <<Head(s)>> \o InsertItem(x, Tail(s))

\* d.items() left in insertion order, sorted() forgotten
UnsortedItemsMutant(d) == d

\* sorted(d.items())
RECURSIVE SortedItems(_)
SortedItems(d) ==
    IF d = <<>> THEN <<>>
    ELSE InsertItem(d[Len(d)], SortedItems(SubSeq(d, 1, Len(d) - 1)))

\* list(zip(*items)): the tuple of keys and the tuple of values, [] if empty
ZipStar(items) ==
    IF items = <<>> THEN <<>>
    ELSE << [i \in DOMAIN items |-> items[i][1]],
            [i \in DOMAIN items |-> items[i][2]] >>

RECURSIVE Insert(_, _)
Insert(x, s) ==
    IF s = <<>> THEN <<x>>
    ELSE IF x < Head(s) THEN <<x>> \o s
    ELSE <<Head(s)>> \o Insert(x, Tail(s))

\* sorted(L): a new ascending list; stable, equal elements keep their order
RECURSIVE Sorted(_)
Sorted(s) ==
    IF s = <<>> THEN <<>>
    ELSE Insert(s[Len(s)], Sorted(SubSeq(s, 1, Len(s) - 1)))

\* heapq._siftdown(heap, startpos, pos), the loop carrying newitem
RECURSIVE SiftDownLoop(_, _, _, _)
SiftDownLoop(heap, startpos, pos, newitem) ==
    IF pos > startpos
    THEN LET parentpos == (pos - 1) \div 2
             parent == heap[parentpos + 1]
         IN  IF newitem < parent
             THEN SiftDownLoop([heap EXCEPT ![pos + 1] = parent],
                               startpos, parentpos, newitem)
             ELSE [heap EXCEPT ![pos + 1] = newitem]
    ELSE [heap EXCEPT ![pos + 1] = newitem]

SiftDown(heap, startpos, pos) ==
    SiftDownLoop(heap, startpos, pos, heap[pos + 1])

\* a _siftup that moves the larger child up
LargerChildMutant(heap, childpos) ==
    LET rightpos == childpos + 1
    IN  IF rightpos < Len(heap) /\ heap[childpos + 1] < heap[rightpos + 1]
        THEN rightpos
        ELSE childpos

\* the child heapq._siftup moves up: the right one unless the left is smaller
SmallerChild(heap, childpos) ==
    LET rightpos == childpos + 1
    IN  IF rightpos < Len(heap) /\ ~(heap[childpos + 1] < heap[rightpos + 1])
        THEN rightpos
        ELSE childpos

\* heapq._siftup(heap, pos): bubble the smaller child up to a leaf, then
\* sift newitem down from there
RECURSIVE SiftUpLoop(_, _, _, _)
SiftUpLoop(heap, startpos, pos, newitem) ==
    LET childpos == 2 * pos + 1
    IN  IF childpos < Len(heap)
        THEN LET c == SmallerChild(heap, childpos)
             IN  SiftUpLoop([heap EXCEPT ![pos + 1] = heap[c + 1]],
                            startpos, c, newitem)
        ELSE SiftDown([heap EXCEPT ![pos + 1] = newitem], startpos, pos)

SiftUp(heap, pos) == SiftUpLoop(heap, pos, pos, heap[pos + 1])

\* heapq.heapify(x): for i in reversed(range(n//2)): _siftup(x, i)
RECURSIVE HeapifyFrom(_, _)
HeapifyFrom(x, i) ==
    IF i < 0 THEN x ELSE HeapifyFrom(SiftUp(x, i), i - 1)

Heapify(x) == HeapifyFrom(x, (Len(x) \div 2) - 1)

\* heapq.heappop(heap) on a non-empty heap: the item returned
HeapPopItem(heap) ==
    LET lastelt == heap[Len(heap)]
    IN  IF Len(heap) > 1 THEN heap[1] ELSE lastelt

\* heapq.heappop(heap) on a non-empty heap: the heap left behind
HeapPopRest(heap) ==
    LET lastelt == heap[Len(heap)]
        rest == SubSeq(heap, 1, Len(heap) - 1)
    IN  IF rest # <<>>
        THEN SiftUp([rest EXCEPT ![1] = lastelt], 0)
        ELSE rest

(* ------------------- median_perf.py: the two medians -------------------- *)
\* a sort_median reading index (len(L) - 1)//2
LowerIndexMutant(L) == IF L = <<>> THEN 0 ELSE (Len(L) - 1) \div 2

\* the index sort_median reads: len(L)//2
MiddleIndex(L) == Len(L) \div 2

\* a heap_median looping over range((len(L) + 1)//2)
PopOneMoreMutant(L) == (Len(L) + 1) \div 2

\* the number of elements the loop of heap_median pops: range(len(L)//2)
PopCount(L) == Len(L) \div 2

\* what sort_median leaves in its argument: sorted() copies, L is untouched
SortMedianArgAfter(L) == L

\* sort_median(L)
SortMedianValue(L) ==
    LET sL == Sorted(L)
    IN  IF MiddleIndex(L) < Len(sL)
        THEN Return(sL[MiddleIndex(L) + 1])
        ELSE Raise(IndexError)

Values == 0 .. MaxValue

ListsOfLen(n) == [1 .. n -> Values]

\* the ten-element list 1..10 of the specification's example
ExampleList == [i \in 1 .. 10 |-> i]

Inputs == (UNION {ListsOfLen(n) : n \in 0 .. MaxLen}) \cup {ExampleList}

\* the variables of the median harness while something else runs
MedianIdle ==
    /\ inputList = <<>>
    /\ sortArg = <<>>
    /\ sortRet = NoValue
    /\ pcSort = "idle"
    /\ heapArg = <<>>
    /\ heapRet = <<>>
    /\ heapN = 0
    /\ heapI = 0
    /\ pcHeap = "idle"

\* the variables of the scripts while something else runs
ScriptsIdle ==
    /\ script = "none"
    /\ entry = "none"
    /\ pc = "idle"
    /\ loopIdx = 0
    /\ series = 0
    /\ trials = <<>>
    /\ trialGen = <<>>
    /\ genCount = 0
    /\ data = <<>>
    /\ actual_median = 0
    /\ start_time = 0
    /\ uniform_results = <<>>
    /\ normal_results = <<>>
    /\ exponential_results = <<>>
    /\ sorted_results = <<>>
    /\ heap_results = <<>>
    /\ timedRuns = <<>>
    /\ scriptError = NoValue
    /\ plotCalls = <<>>

\* the variables of the lone experimental_data call while something else runs
DataIdle ==
    /\ dMode = <<>>
    /\ dLength = 0
    /\ dResult = NoValue

InitMedian ==
    /\ ScriptsIdle
    /\ DataIdle
    /\ inputList \in Inputs
    /\ sortArg = inputList
    /\ sortRet = NoValue
    /\ pcSort = "call"
    /\ heapArg = inputList
    /\ heapRet = <<>>
    /\ heapN = 0
    /\ heapI = 0
    /\ pcHeap = "call"

\* sort_median(L), lines 57-58
SortMedian ==
    /\ pcSort = "call"
    /\ sortRet' = SortMedianValue(sortArg)
    /\ sortArg' = SortMedianArgAfter(sortArg)
    /\ pcSort' = "done"
    /\ UNCHANGED <<inputList, heapArg, heapRet, heapN, heapI, pcHeap>>
    /\ UNCHANGED <<scriptVars, dataVars>>

\* heap_median(L), line 43 and the evaluation of range(len(L)//2) of line 44
HeapMedianHeapify ==
    /\ pcHeap = "call"
    /\ heapArg' = Heapify(heapArg)
    /\ heapN' = PopCount(heapArg)
    /\ heapI' = 0
    /\ pcHeap' = "loop"
    /\ UNCHANGED <<inputList, sortArg, sortRet, pcSort, heapRet>>
    /\ UNCHANGED <<scriptVars, dataVars>>

\* heap_median(L), one iteration of the loop of lines 44-45
HeapMedianPop ==
    /\ pcHeap = "loop"
    /\ heapI < heapN
    /\ heapArg' = HeapPopRest(heapArg)
    /\ heapI' = heapI + 1
    /\ UNCHANGED <<inputList, sortArg, sortRet, pcSort, heapRet, heapN, pcHeap>>
    /\ UNCHANGED <<scriptVars, dataVars>>

\* heap_median(L), line 46; heappop of an empty list raises IndexError
HeapMedianReturn ==
    /\ pcHeap = "loop"
    /\ heapI = heapN
    /\ IF heapArg = <<>>
       THEN /\ heapRet' = Append(heapRet, Raise(IndexError))
            /\ heapArg' = heapArg
       ELSE /\ heapRet' = Append(heapRet, Return(HeapPopItem(heapArg)))
            /\ heapArg' = HeapPopRest(heapArg)
    /\ pcHeap' = "done"
    /\ UNCHANGED <<inputList, sortArg, sortRet, pcSort, heapN, heapI>>
    /\ UNCHANGED <<scriptVars, dataVars>>

\* a caller handing the list heap_median has returned from to it once more
HeapMedianAgain ==
    /\ pcHeap = "done"
    /\ Len(heapRet) = 1
    /\ pcHeap' = "call"
    /\ UNCHANGED <<inputList, sortArg, sortRet, pcSort, heapArg, heapRet,
                   heapN, heapI>>
    /\ UNCHANGED <<scriptVars, dataVars>>

NextMedian ==
    \/ SortMedian
    \/ HeapMedianHeapify
    \/ HeapMedianPop
    \/ HeapMedianReturn
    \/ HeapMedianAgain

SpecMedian == InitMedian /\ [][NextMedian]_vars

(* ------------------- properties of the two medians ---------------------- *)
CountLess(s, v) == Cardinality({i \in DOMAIN s : s[i] < v})
CountLeq(s, v) == Cardinality({i \in DOMAIN s : s[i] <= v})

\* v is the element at Python index k of s in ascending order
IsRank(s, k, v) == CountLess(s, v) <= k /\ CountLeq(s, v) >= k + 1

BothReturned == pcSort = "done" /\ Len(heapRet) >= 1

\* C1: on its own copy of a non-empty list, sort_median and heap_median
\* return the same value, an element of the list
C1_SameMedian ==
    (BothReturned /\ Len(inputList) >= 1)
        => /\ sortRet = heapRet[1]
           /\ Returned(sortRet)
           /\ \E i \in DOMAIN inputList : inputList[i] = sortRet[2]

C1_Witness ==
    /\ BothReturned
    /\ Len(inputList) = 4
    /\ inputList[1] = inputList[3]
    /\ inputList[2] # inputList[4]
    /\ sortRet = heapRet[1]

EvenInput == Len(inputList) >= 2 /\ Len(inputList) % 2 = 0

\* C2 as stated: for an even-length list both functions return the lower
\* median, the smaller of the two middle elements, and 5 for the list 1..10
C2_LowerMedian ==
    (BothReturned /\ EvenInput)
        => /\ IsRank(inputList, Len(inputList) \div 2 - 1, sortRet[2])
           /\ IsRank(inputList, Len(inputList) \div 2 - 1, heapRet[1][2])
           /\ inputList = ExampleList
                => (sortRet = Return(5) /\ heapRet[1] = Return(5))

\* C2 amended: for an even-length list both functions return the upper
\* median, the larger of the two middle elements (index len//2 of the sorted
\* list), and 6 for the list 1..10
C2_UpperMedian ==
    (BothReturned /\ EvenInput)
        => /\ IsRank(inputList, Len(inputList) \div 2, sortRet[2])
           /\ IsRank(inputList, Len(inputList) \div 2, heapRet[1][2])
           /\ inputList = ExampleList
                => (sortRet = Return(6) /\ heapRet[1] = Return(6))

C2_Witness ==
    /\ BothReturned
    /\ inputList = ExampleList
    /\ sortRet = Return(6)
    /\ heapRet[1] = Return(6)

\* the part of the sorted input ranked strictly above index len//2
UpperPart(L) == SubSeq(Sorted(L), Len(L) \div 2 + 2, Len(L))

\* C10: sort_median leaves its argument as it was; after heap_median(L) on
\* a list of n >= 1 elements L holds the n - (n//2 + 1) elements ranked
\* strictly above index n//2
C10_FrameEffect ==
    /\ pcSort = "done" => sortArg = inputList
    /\ (pcHeap = "done" /\ Len(heapRet) = 1 /\ Len(inputList) >= 1)
        => /\ Len(heapArg) = Len(inputList) - (Len(inputList) \div 2 + 1)
           /\ Sorted(heapArg) = UpperPart(inputList)

\* a second call on the same list has returned another value than the first
C10_Witness ==
    /\ pcSort = "done"
    /\ pcHeap = "done"
    /\ Len(heapRet) = 2
    /\ Returned(heapRet[2])
    /\ heapRet[2] # heapRet[1]

(* ------------- median_estimate_accuracy.py: experimental_data ----------- *)
(* a str is the sequence of its characters *)
UpperCase == <<"A", "B", "C", "D", "E", "F", "G", "H", "I", "J", "K", "L", "M",
               "N", "O", "P", "Q", "R", "S", "T", "U", "V", "W", "X", "Y", "Z">>
LowerCase == <<"a", "b", "c", "d", "e", "f", "g", "h", "i", "j", "k", "l", "m",
               "n", "o", "p", "q", "r", "s", "t", "u", "v", "w", "x", "y", "z">>

LowerChar(c) ==
    IF \E i \in DOMAIN UpperCase : UpperCase[i] = c
    THEN LowerCase[CHOOSE i \in DOMAIN UpperCase : UpperCase[i] = c]
    ELSE c

\* a comparison of mode as given, lower() forgotten
NoLowerMutant(mode) == mode

\* mode.lower()
Lower(mode) == [i \in DOMAIN mode |-> LowerChar(mode[i])]

UNIFORM == <<"u", "n", "i", "f", "o", "r", "m">>
NORMAL == <<"n", "o", "r", "m", "a", "l">>
EXPONENTIAL == <<"e", "x", "p", "o", "n", "e", "n", "t", "i", "a", "l">>

\* round(val*10.0)/10.0 of a draw of val twentieths, in tenths
Binned(val) == RoundHalf(val)

\* [rng.random() for i in range(length)]
UniformLists(length) == [1 .. length -> 0 .. MaxUniform]

\* [rng.gauss(mu=10.0, sigma=3.0) ...] and then the binning of line 46
NormalLists(length) ==
    [1 .. length -> {Binned(val) : val \in (0 - MaxGauss) .. MaxGauss}]

\* [rng.expovariate(1/10.0) ...] and then the binning of line 49
ExponentialLists(length) ==
    [1 .. length -> {Binned(val) : val \in 0 .. MaxExpo}]

\* the Exception of line 53 and its message
BadMode(mode) ==
    <<"Exception">> \o <<"Please choose a valid mode. ">> \o mode
        \o <<" is not valid.">>

\* experimental_data(mode, length): every way the call can end.
\* range(length) is empty for length < 0.
ExperimentalData(mode, length) ==
    LET n == IF length < 0 THEN 0 ELSE length
    IN  IF Lower(mode) = UNIFORM
        THEN {Return(L) : L \in UniformLists(n)}
        ELSE IF Lower(mode) = NORMAL
        THEN {Return(L) : L \in NormalLists(n)}
        ELSE IF Lower(mode) = EXPONENTIAL
        THEN {Return(L) : L \in ExponentialLists(n)}
        ELSE {Raise(BadMode(mode))}

Modes ==
    { UNIFORM, NORMAL, EXPONENTIAL,
      <<"U", "n", "i", "f", "o", "r", "m">>,
      <<"N", "O", "R", "M", "A", "L">>,
      <<"E", "x", "p", "o", "n", "e", "n", "t", "i", "a", "l">>,
      <<"g", "a", "u", "s", "s">>,
      <<"u", "n", "i", "f", "o", "r", "m", " ">>,
      <<"N", "o", "r", "m">>,
      <<>> }

InitData ==
    /\ MedianIdle
    /\ ScriptsIdle
    /\ dMode \in Modes
    /\ dLength \in 0 .. MaxDataLen
    /\ dResult = NoValue

\* experimental_data(mode, length) called on its own, lines 41-55
ExperimentalDataCall ==
    /\ dResult = NoValue
    /\ dResult' \in ExperimentalData(dMode, dLength)
    /\ UNCHANGED <<dMode, dLength>>
    /\ UNCHANGED <<medianVars, scriptVars>>

NextData == ExperimentalDataCall

SpecData == InitData /\ [][NextData]_vars

\* mode is one of the three names, letter case aside
Recognised(mode) ==
    \E name \in {UNIFORM, NORMAL, EXPONENTIAL} :
        /\ Len(mode) = Len(name)
        /\ \A i \in DOMAIN mode :
              \/ mode[i] = name[i]
              \/ \E j \in DOMAIN UpperCase :
                    UpperCase[j] = mode[i] /\ LowerCase[j] = name[i]

\* the mode the message of an Exception quotes
QuotedMode(r) == SubSeq(r[2], 3, Len(r[2]) - 1)

\* C4: experimental_data raises the Exception naming the mode exactly when the
\* mode is none of the three names in any letter case, and returns a list of
\* `length` elements otherwise
C4_ModeValidation ==
    dResult # NoValue
        => IF Recognised(dMode)
           THEN Returned(dResult) /\ Len(dResult[2]) = dLength
           ELSE /\ Raised(dResult)
                /\ dResult[2][1] = "Exception"
                /\ QuotedMode(dResult) = dMode

C4_Witness ==
    /\ dMode = <<"N", "o", "r", "m">>
    /\ Raised(dResult)
    /\ QuotedMode(dResult) = dMode

(* ---------------- median_estimate_accuracy.py: the script --------------- *)
sample_sizes == Range(SampleStart, SampleStop, SampleStep)

\* the mode the statement of line 130, 131, 132 passes to score_median
SeriesMode(k) ==
    IF k = 0 THEN UNIFORM ELSE IF k = 1 THEN NORMAL ELSE EXPONENTIAL

\* rng.sample(data, k): k elements at distinct positions, in any order
Sample(population, k) ==
    {[i \in 1 .. k |-> population[pos[i]]] :
        pos \in {f \in [1 .. k -> DOMAIN population] :
                    \A i, j \in 1 .. k : i # j => f[i] # f[j]}}

\* the score of line 80 for a non-zero actual median
Score(estimated_median, actual) ==
    Frac(Abs(estimated_median - actual), actual)

\* a line 80 that scores a zero actual median 0.0 instead of dividing
GuardedDivisionMutant(estimated_median, actual) ==
    IF actual = 0
    THEN Return(Frac(0, 1))
    ELSE Return(Score(estimated_median, actual))

\* line 80: the float division raises ZeroDivisionError on a zero divisor
ScoreOutcome(estimated_median, actual) ==
    IF actual = 0
    THEN Raise(ZeroDivisionError)
    ELSE Return(Score(estimated_median, actual))

\* a sum(trials) stored without the division
SumOnlyMutant(L, n) == Sum(L)

\* sum(trials) / n of lines 130-132 and 124-125
Mean(L, n) == LET t == Sum(L) IN Frac(t[1], t[2] * n)

InitAccuracy ==
    /\ MedianIdle
    /\ DataIdle
    /\ script = "accuracy"
    /\ entry = "run_test"
    /\ pc = IF sample_sizes = <<>> THEN "plot" ELSE "trial"
    /\ loopIdx = 0
    /\ series = 0
    /\ trials = <<>>
    /\ trialGen = <<>>
    /\ genCount = 0
    /\ data = <<>>
    /\ actual_median = 0
    /\ start_time = 0
    /\ uniform_results = <<>>
    /\ normal_results = <<>>
    /\ exponential_results = <<>>
    /\ sorted_results = <<>>
    /\ heap_results = <<>>
    /\ timedRuns = <<>>
    /\ scriptError = NoValue
    /\ plotCalls = <<>>

\* the uncaught exception e ends the script where it stands
Abort(e) ==
    /\ pc' = "aborted"
    /\ scriptError' = e

\* score_median(data_mode, sample_size), lines 75-77
ScoreMedianData ==
    /\ script = "accuracy"
    /\ pc = "trial"
    /\ Len(trials) < NumTrials
    /\ \E r \in ExperimentalData(SeriesMode(series), PopLen) :
          IF Raised(r)
          THEN /\ Abort(r)
               /\ UNCHANGED <<data, actual_median, genCount>>
          ELSE LET sorted_data == Sorted(r[2])
               IN  /\ genCount' = genCount + 1
                   /\ data' = sorted_data
                   /\ IF sorted_data = <<>>
                      THEN /\ Abort(Raise(IndexError))
                           /\ UNCHANGED actual_median
                      ELSE /\ actual_median' =
                                 sorted_data[Len(sorted_data) \div 2 + 1]
                           /\ pc' = "scoring"
                           /\ UNCHANGED scriptError
    /\ UNCHANGED <<script, entry, loopIdx, series, trials, trialGen, start_time,
                   accTables, perfTables, timedRuns, plotCalls>>
    /\ UNCHANGED <<medianVars, dataVars>>

\* score_median(data_mode, sample_size), lines 78-81, and the append of the
\* list comprehension that called it; the locals die with the return, an
\* exception leaves them as they were
ScoreMedianScore ==
    /\ script = "accuracy"
    /\ pc = "scoring"
    /\ LET sample_size == sample_sizes[loopIdx + 1]
       IN  IF sample_size > Len(data)
           THEN /\ Abort(Raise(ValueError))
                /\ UNCHANGED <<trials, trialGen, data, actual_median>>
           ELSE \E sample \in Sample(data, sample_size) :
                  LET sorted_sample == Sorted(sample)
                      estimated_median ==
                          sorted_sample[Len(sorted_sample) \div 2 + 1]
                      score == ScoreOutcome(estimated_median, actual_median)
                  IN  IF sorted_sample = <<>>
                      THEN /\ Abort(Raise(IndexError))
                           /\ UNCHANGED <<trials, trialGen, data, actual_median>>
                      ELSE IF Raised(score)
                      THEN /\ Abort(score)
                           /\ UNCHANGED <<trials, trialGen, data, actual_median>>
                      ELSE /\ trials' = Append(trials, score[2])
                           /\ trialGen' = Append(trialGen, genCount)
                           /\ data' = <<>>
                           /\ actual_median' = 0
                           /\ pc' = "trial"
                           /\ UNCHANGED scriptError
    /\ UNCHANGED <<script, entry, loopIdx, series, genCount, start_time,
                   accTables, perfTables, timedRuns, plotCalls>>
    /\ UNCHANGED <<medianVars, dataVars>>

\* the for statement of run_test taking its next value, or ending
NextIteration(values) ==
    IF loopIdx + 1 < Len(values)
    THEN loopIdx' = loopIdx + 1 /\ pc' = "trial"
    ELSE loopIdx' = loopIdx /\ pc' = "plot"

ComprehensionDone(n) == pc = "trial" /\ Len(trials) = n

\* line 130
StoreUniform ==
    /\ script = "accuracy"
    /\ series = 0
    /\ ComprehensionDone(NumTrials)
    /\ uniform_results' = DictSet(uniform_results, sample_sizes[loopIdx + 1],
                                  Mean(trials, NumTrials))
    /\ series' = 1
    /\ trials' = <<>>
    /\ trialGen' = <<>>
    /\ UNCHANGED <<script, entry, pc, loopIdx, genCount, data, actual_median,
                   start_time, normal_results, exponential_results,
                   perfTables, timedRuns, scriptError, plotCalls>>
    /\ UNCHANGED <<medianVars, dataVars>>

\* line 131
StoreNormal ==
    /\ script = "accuracy"
    /\ series = 1
    /\ ComprehensionDone(NumTrials)
    /\ normal_results' = DictSet(normal_results, sample_sizes[loopIdx + 1],
                                 Mean(trials, NumTrials))
    /\ series' = 2
    /\ trials' = <<>>
    /\ trialGen' = <<>>
    /\ UNCHANGED <<script, entry, pc, loopIdx, genCount, data, actual_median,
                   start_time, uniform_results, exponential_results,
                   perfTables, timedRuns, scriptError, plotCalls>>
    /\ UNCHANGED <<medianVars, dataVars>>

\* line 132 and the step of the for statement of line 129
StoreExponential ==
    /\ script = "accuracy"
    /\ series = 2
    /\ ComprehensionDone(NumTrials)
    /\ exponential_results' =
          DictSet(exponential_results, sample_sizes[loopIdx + 1],
                  Mean(trials, NumTrials))
    /\ series' = 0
    /\ trials' = <<>>
    /\ trialGen' = <<>>
    /\ NextIteration(sample_sizes)
    /\ UNCHANGED <<script, entry, genCount, data, actual_median,
                   start_time, uniform_results, normal_results,
                   perfTables, timedRuns, scriptError, plotCalls>>
    /\ UNCHANGED <<medianVars, dataVars>>

\* the plt.plot calls of median_line_plot for the dicts in results, in order:
\* the calls made, and whether an empty dict stopped them with IndexError
RECURSIVE PlotAll(_, _)
PlotAll(results, calls) ==
    IF results = <<>> THEN <<calls, NoValue>>
    ELSE LET items == ZipStar(SortedItems(Head(results)))
         IN  IF items = <<>>
             THEN <<calls, Raise(IndexError)>>
             ELSE PlotAll(Tail(results),
                          Append(calls, <<items[1], items[2]>>))

\* median_line_plot(...) of either script, as called at the end of run_test
MedianLinePlot ==
    /\ pc = "plot"
    /\ LET results == IF script = "accuracy"
                      THEN <<uniform_results, normal_results,
                             exponential_results>>
                      ELSE <<sorted_results, heap_results>>
           out == PlotAll(results, <<>>)
       IN  /\ plotCalls' = out[1]
           /\ scriptError' = out[2]
           /\ pc' = IF out[2] = NoValue THEN "done" ELSE "aborted"
    /\ UNCHANGED <<script, entry, loopIdx, series, trials, trialGen, genCount,
                   data, actual_median, start_time, accTables, perfTables,
                   timedRuns>>
    /\ UNCHANGED <<medianVars, dataVars>>

NextAccuracy ==
    \/ ScoreMedianData
    \/ ScoreMedianScore
    \/ StoreUniform
    \/ StoreNormal
    \/ StoreExponential
    \/ MedianLinePlot

(* --------------------- median_perf.py: the script ----------------------- *)
lengths == Range(LenStart, LenStop, LenStep)

\* median_perf.experimental_data(length)
PerfExperimentalData(length) ==
    UniformLists(IF length < 0 THEN 0 ELSE length)

\* the algorithm the statement of line 124, 125 times
SeriesFunc(k) == IF k = 0 THEN "sort_median" ELSE "heap_median"

\* heap_median(L) from call to return: <<outcome, L afterwards>>
RECURSIVE HeapMedianPops(_, _)
HeapMedianPops(heap, n) ==
    IF n = 0
    THEN IF heap = <<>>
         THEN <<Raise(IndexError), heap>>
         ELSE <<Return(HeapPopItem(heap)), HeapPopRest(heap)>>
    ELSE HeapMedianPops(HeapPopRest(heap), n - 1)

HeapMedianCall(L) == HeapMedianPops(Heapify(L), PopCount(L))

\* median_func(data): <<outcome, data afterwards>>
MedianFunc(f, L) ==
    IF f = "sort_median"
    THEN <<SortMedianValue(L), SortMedianArgAfter(L)>>
    ELSE HeapMedianCall(L)

InitPerf ==
    /\ MedianIdle
    /\ DataIdle
    /\ script = "perf"
    /\ entry = "run_test"
    /\ pc = IF lengths = <<>> THEN "plot" ELSE "trial"
    /\ loopIdx = 0
    /\ series = 0
    /\ trials = <<>>
    /\ trialGen = <<>>
    /\ genCount = 0
    /\ data = <<>>
    /\ actual_median = 0
    /\ start_time = 0
    /\ uniform_results = <<>>
    /\ normal_results = <<>>
    /\ exponential_results = <<>>
    /\ sorted_results = <<>>
    /\ heap_results = <<>>
    /\ timedRuns = <<>>
    /\ scriptError = NoValue
    /\ plotCalls = <<>>

\* time_median(median_func, length), lines 107-108
TimeMedianData ==
    /\ script = "perf"
    /\ pc = "trial"
    /\ Len(trials) < NumTimings
    /\ data' \in PerfExperimentalData(lengths[loopIdx + 1])
    /\ genCount' = genCount + 1
    /\ start_time' \in 0 .. MaxClock
    /\ pc' = "timing"
    /\ UNCHANGED <<script, entry, loopIdx, series, trials, trialGen,
                   actual_median, accTables, perfTables, timedRuns,
                   scriptError, plotCalls>>
    /\ UNCHANGED <<medianVars, dataVars>>

\* time_median(median_func, length), lines 109-112, and the append of the
\* list comprehension that called it; the locals die with the return
TimeMedianRun ==
    /\ script = "perf"
    /\ pc = "timing"
    /\ LET out == MedianFunc(SeriesFunc(series), data)
       IN  /\ timedRuns' = Append(timedRuns, <<SeriesFunc(series), genCount>>)
           /\ IF Raised(out[1])
              THEN /\ Abort(out[1])
                   /\ data' = out[2]
                   /\ UNCHANGED <<trials, trialGen, start_time>>
              ELSE \E end_time \in start_time .. MaxClock :
                     LET total_time == end_time - start_time
                     IN  /\ trials' = Append(trials, Frac(total_time, 1))
                         /\ trialGen' = Append(trialGen, genCount)
                         /\ data' = <<>>
                         /\ start_time' = 0
                         /\ pc' = "trial"
                         /\ UNCHANGED scriptError
    /\ UNCHANGED <<script, entry, loopIdx, series, genCount, actual_median,
                   accTables, perfTables, plotCalls>>
    /\ UNCHANGED <<medianVars, dataVars>>

\* line 124
StoreSorted ==
    /\ script = "perf"
    /\ series = 0
    /\ ComprehensionDone(NumTimings)
    /\ sorted_results' = DictSet(sorted_results, lengths[loopIdx + 1],
                                 Mean(trials, NumTimings))
    /\ series' = 1
    /\ trials' = <<>>
    /\ trialGen' = <<>>
    /\ UNCHANGED <<script, entry, pc, loopIdx, genCount, data, actual_median,
                   start_time, accTables, heap_results, timedRuns,
                   scriptError, plotCalls>>
    /\ UNCHANGED <<medianVars, dataVars>>

\* line 125 and the step of the for statement of line 123
StoreHeap ==
    /\ script = "perf"
    /\ series = 1
    /\ ComprehensionDone(NumTimings)
    /\ heap_results' = DictSet(heap_results, lengths[loopIdx + 1],
                               Mean(trials, NumTimings))
    /\ series' = 0
    /\ trials' = <<>>
    /\ trialGen' = <<>>
    /\ timedRuns' = IF loopIdx + 1 < Len(lengths) THEN <<>> ELSE timedRuns
    /\ NextIteration(lengths)
    /\ UNCHANGED <<script, entry, genCount, data, actual_median,
                   start_time, accTables, sorted_results,
                   scriptError, plotCalls>>
    /\ UNCHANGED <<medianVars, dataVars>>

NextPerf ==
    \/ TimeMedianData
    \/ TimeMedianRun
    \/ StoreSorted
    \/ StoreHeap

(* ------------------------ the two scripts, run -------------------------- *)
Init == InitAccuracy \/ InitPerf

Next == NextAccuracy \/ NextPerf

Spec == Init /\ [][Next]_vars

(* ------------------- median_line_plot called on its own ----------------- *)
PlotValues == {Frac(0, 1), Frac(1, 2)}

\* the dicts of at most MaxItems items, in every insertion order
Dicts ==
    UNION {{[i \in 1 .. n |-> <<keys[i], vals[i]>>] :
               keys \in {f \in [1 .. n -> 1 .. MaxItems] :
                            \A i, j \in 1 .. n : i # j => f[i] # f[j]},
               vals \in [1 .. n -> PlotValues]} :
           n \in 0 .. MaxItems}

InitPlotCall ==
    /\ MedianIdle
    /\ DataIdle
    /\ script \in {"accuracy", "perf"}
    /\ entry = "median_line_plot"
    /\ pc = "plot"
    /\ loopIdx = 0
    /\ series = 0
    /\ trials = <<>>
    /\ trialGen = <<>>
    /\ genCount = 0
    /\ data = <<>>
    /\ actual_median = 0
    /\ start_time = 0
    /\ IF script = "accuracy"
       THEN /\ uniform_results \in Dicts
            /\ normal_results \in Dicts
            /\ exponential_results \in Dicts
            /\ sorted_results = <<>>
            /\ heap_results = <<>>
       ELSE /\ uniform_results = <<>>
            /\ normal_results = <<>>
            /\ exponential_results = <<>>
            /\ sorted_results \in Dicts
            /\ heap_results \in Dicts
    /\ timedRuns = <<>>
    /\ scriptError = NoValue
    /\ plotCalls = <<>>

InitPlot == InitAccuracy \/ InitPerf \/ InitPlotCall

SpecPlot == InitPlot /\ [][Next]_vars

(* ----------------------- properties of the scripts ---------------------- *)
\* the values of range(start, stop, step), step > 0
RangeSet(start, stop, step) ==
    {v \in start .. (stop - 1) : (v - start) % step = 0}

Configured ==
    IF script = "accuracy"
    THEN RangeSet(SampleStart, SampleStop, SampleStep)
    ELSE RangeSet(LenStart, LenStop, LenStep)

\* the result tables of the script running
Tables ==
    IF script = "accuracy"
    THEN <<uniform_results, normal_results, exponential_results>>
    ELSE <<sorted_results, heap_results>>

\* the configuration value of the iteration running
Current == IF script = "accuracy" THEN sample_sizes[loopIdx + 1]
           ELSE lengths[loopIdx + 1]

LoopOver == pc \in {"plot", "done"}

\* C3 as stated: every score score_median has returned is >= 0
C3_ScoreNonNegative ==
    script = "accuracy" => \A i \in DOMAIN trials : trials[i][1] >= 0

\* C5: once the loop of run_test is over each table has exactly the values of
\* the range as keys, each once; while it runs a table has keys only among
\* the values visited so far
C5_TableKeys ==
    \A t \in DOMAIN Tables :
        /\ Cardinality(DictKeys(Tables[t])) = Len(Tables[t])
        /\ LoopOver => DictKeys(Tables[t]) = Configured
        /\ ~LoopOver
            => DictKeys(Tables[t]) \subseteq {v \in Configured : v <= Current}

C5_Witness ==
    /\ script = "accuracy"
    /\ pc = "done"
    /\ Len(exponential_results) >= 2
    /\ DictKeys(exponential_results) = DictKeys(uniform_results)

ZeroDivisionAbort == pc = "aborted" /\ scriptError = Raise(ZeroDivisionError)

\* a step of score_median past line 77 with a true median of zero
ZeroMedianStep ==
    /\ script = "accuracy"
    /\ pc = "scoring"
    /\ actual_median = 0
    /\ Current \in 1 .. Len(data)

\* C6 as stated: a zero true median ends the run with ZeroDivisionError: no
\* score joins the trials, no entry is stored for the sample size being
\* processed, nothing is plotted, and the script takes no further step
C6_NoEntryAtAll ==
    [][ /\ ZeroMedianStep
            => /\ ZeroDivisionAbort'
               /\ trials' = trials
               /\ \A t \in DOMAIN Tables : ~DictHas(Tables'[t], Current)
               /\ plotCalls' = <<>>
        /\ pc = "aborted" => UNCHANGED vars ]_vars

\* C6 amended: a zero true median ends the run with ZeroDivisionError: no
\* score joins the trials, no table changes, the table of the series being
\* processed holds no entry for the sample size being processed, nothing is
\* plotted, and the script takes no further step
C6_ZeroMedianAborts ==
    [][ /\ ZeroMedianStep
            => /\ ZeroDivisionAbort'
               /\ trials' = trials
               /\ Tables' = Tables
               /\ ~DictHas(Tables[series + 1], Current)
               /\ plotCalls' = <<>>
        /\ pc = "aborted" => UNCHANGED vars ]_vars

C6_Witness ==
    /\ script = "accuracy"
    /\ ZeroDivisionAbort
    /\ series = 1
    /\ loopIdx = 1
    /\ trials # <<>>
    /\ DictHas(uniform_results, Current)

\* C7 as stated: the timed runs of one length all work on the same generated
\* list
C7_SameList ==
    script = "perf"
        => \A i, j \in DOMAIN timedRuns : timedRuns[i][2] = timedRuns[j][2]

RECURSIVE ProdDen(_)
ProdDen(L) == IF L = <<>> THEN 1 ELSE L[1][2] * ProdDen(Tail(L))

\* the sum of the first k fractions of L, counted in D-ths
RECURSIVE ScaledSumTo(_, _, _)
ScaledSumTo(L, k, D) ==
    IF k = 0 THEN 0
    ELSE ScaledSumTo(L, k - 1, D) + L[k][1] * (D \div L[k][2])

ScaledSum(L) == ScaledSumTo(L, Len(L), ProdDen(L))

IsMeanOf(v, L, n) == v[1] * ProdDen(L) * n = v[2] * ScaledSum(L)

TrialCount == IF script = "accuracy" THEN NumTrials ELSE NumTimings

C9_PlotSorted ==
    /\ \A c \in DOMAIN plotCalls :
          LET x == plotCalls[c][1]
              y == plotCalls[c][2]
              d == Tables[c]
          IN  /\ Len(x) = Len(d)
              /\ Len(y) = Len(d)
              /\ \A i \in DOMAIN x : DictHas(d, x[i]) /\ y[i] = DictGet(d, x[i])
              /\ \A i, j \in DOMAIN x : i < j => x[i] < x[j]
    /\ (plotCalls # <<>> /\ entry = "run_test")
          => /\ pc = "done"
             /\ trials = <<>>
             /\ \A t \in DOMAIN Tables : DictKeys(Tables[t]) = Configured

C9_Witness ==
    /\ entry = "median_line_plot"
    /\ script = "perf"
    /\ pc = "done"
    /\ Len(plotCalls) = 2
    /\ heap_results = << <<2, Frac(1, 2)>>, <<1, Frac(0, 1)>> >>
    /\ plotCalls[2] = << <<1, 2>>, <<Frac(0, 1), Frac(1, 2)>> >>

====
